---- MODULE Spec2Model ----
(***************************************************************************)
(* Model of the clay_mode Blender add-on.                                  *)
(*                                                                         *)
(*   src/__init__.py                  version 1.4.0: override toggle with  *)
(*                                    a created fallback material, and the *)
(*                                    "group with summary" operator        *)
(*   src/clay_mode_addon/__init__.py  version 1.1: override toggle only    *)
(*                                                                         *)
(* The host state the operators read and write is modelled explicitly:     *)
(* bpy.data.materials (data blocks with unique names), the view layer's    *)
(* material_override pointer, the scene custom property                    *)
(* 'stored_material_override', and for the grouping operator the objects   *)
(* of the scene with their parent pointers, bounding boxes and world       *)
(* matrices.                                                               *)
(***************************************************************************)
EXTENDS Integers, Sequences, FiniteSets, TLC

VARIABLES
    version,            \* which add-on file is installed: "1.4.0" or "1.1"
    materials,          \* bpy.data.materials: data block id -> name
    material_override,  \* view_layer.material_override: data block id, None = 0
    stored,             \* scene['stored_material_override']: <<>> absent, <<name>>
    last,               \* the last operator call: its result, reports and pre-state
    prev,               \* the pre-state of the toggle right before the last toggle
    run,                \* bookkeeping of the current run of consecutive toggles
    objects,            \* bpy.data.objects: object id -> its fields
    selected_objects,   \* context.selected_objects
    active_object,      \* context.object
    call                \* the last grouping call: its result, reports and pre-state

toggleVars == <<materials, material_override, stored, last, prev, run>>

groupVars == <<objects, selected_objects, active_object, call>>

vars == <<version, toggleVars, groupVars>>

-----------------------------------------------------------------------------
(* Bounds *)

MaxMats == 2        \* at most this many material data blocks exist at a time
MaxToggles == 4     \* at most this many toggles in a row are counted
NumInit == 3        \* objects in the scene before the first grouping
MaxObjs == 5        \* at most this many objects exist (NumInit plus the empties)

-----------------------------------------------------------------------------
(* Host data: names *)

None == 0

MatIds == 1..MaxMats

ClayName == "M_ClayMode_Override"

UserNames == {"Material", ClayName}

Suffixes == <<".001", ".002", ".003", ".004", ".005", ".006">>

\* Blender keeps the names of the data blocks of one kind unique: a requested
\* name that is taken gets the first free numeric suffix.
UniqueName(base, used) ==
    IF base \notin used THEN base
    ELSE LET free(k) == (base \o Suffixes[k]) \notin used
             k == CHOOSE i \in 1..Len(Suffixes) :
                     free(i) /\ \A j \in 1..(i - 1) : ~free(j)
         IN  base \o Suffixes[k]

NamesOf(mats) == {mats[m] : m \in DOMAIN mats}

\* bpy.data.materials.get(name): the data block of that name, or None
MaterialsGet(mats, name) ==
    IF \E m \in DOMAIN mats : mats[m] = name
    THEN CHOOSE m \in DOMAIN mats : mats[m] = name
    ELSE None

\* bpy.data.materials.new(name=...): a fresh data block under a unique name
FreshId(mats) == CHOOSE m \in MatIds : m \notin DOMAIN mats /\
                     \A k \in MatIds : k \notin DOMAIN mats => m <= k

MaterialsNew(mats, name) ==
    LET id == FreshId(mats)
    IN  [m \in DOMAIN mats \cup {id} |->
            IF m = id THEN UniqueName(name, NamesOf(mats)) ELSE mats[m]]

\* Python truthiness of scene.get('stored_material_override')
Truthy(s) == s # <<>> /\ s[1] # ""

-----------------------------------------------------------------------------
(* MATERIAL_OT_OverrideToggle.execute *)

\* What one call of execute leaves behind: the new override, stored name and
\* materials, the report types in order, the returned set's element, and the
\* number of calls of create_clay_material.
Outcome(ov, st, mats, reports, created) ==
    [ov |-> ov, st |-> st, mats |-> mats, reports |-> reports,
     result |-> "FINISHED", created |-> created]

\* a disable that clears the override without storing its name
DisableOverride_KeepStored(ov, st, mats) ==
    Outcome(None, st, mats, <<"INFO">>, 0)

\* if view_layer.material_override: store its name, then clear the override
DisableOverride(ov, st, mats) ==
    Outcome(None, <<mats[ov]>>, mats, <<"INFO">>, 0)

\* create_clay_material(): the only host state it changes is the new data
\* block (its node tree belongs to that block alone)
create_clay_material(mats) == MaterialsNew(mats, ClayName)

\* a 1.1 that fell back to a new material the way 1.4.0 does
EnableStoredOverride_Create(st, mats) ==
    LET material == IF Truthy(st) THEN MaterialsGet(mats, st[1]) ELSE None
    IN  IF material = None
        THEN LET created == create_clay_material(mats)
                 mat == FreshId(mats)
             IN  Outcome(mat, <<created[mat]>>, created, <<"INFO", "INFO">>, 1)
        ELSE Outcome(material, st, mats, <<"INFO">>, 0)

\* version 1.1, override unset: enable only with a stored name that resolves
EnableStoredOverride(st, mats) ==
    LET material_name == st
    IN  IF Truthy(material_name)
        THEN LET material == MaterialsGet(mats, material_name[1])
             IN  IF material # None
                 THEN Outcome(material, st, mats, <<"INFO">>, 0)
                 ELSE Outcome(None, st, mats, <<"WARNING">>, 0)
        ELSE Outcome(None, st, mats, <<"WARNING">>, 0)

\* an enable without the fallback: nothing is created, nothing is enabled
EnableOverride_NoFallback(st, mats) ==
    LET material == IF Truthy(st) THEN MaterialsGet(mats, st[1]) ELSE None
    IN  IF material = None
        THEN Outcome(None, st, mats, <<"WARNING">>, 0)
        ELSE Outcome(material, st, mats, <<"INFO">>, 0)

\* a fallback that ignores the stored name and creates a material whenever
\* there is room for one
EnableOverride_AlwaysCreate(st, mats) ==
    IF Cardinality(DOMAIN mats) < MaxMats
    THEN LET created == create_clay_material(mats)
             mat == FreshId(mats)
         IN  Outcome(mat, <<created[mat]>>, created, <<"INFO", "INFO">>, 1)
    ELSE Outcome(MaterialsGet(mats, st[1]), st, mats, <<"INFO">>, 0)

\* a fallback that leaves out line 103, the store of the new name
EnableOverride_NoStore(st, mats) ==
    LET material == IF Truthy(st) THEN MaterialsGet(mats, st[1]) ELSE None
    IN  IF material = None
        THEN Outcome(FreshId(mats), st, create_clay_material(mats),
                     <<"INFO", "INFO">>, 1)
        ELSE Outcome(material, st, mats, <<"INFO">>, 0)

\* a fallback that stores the requested name instead of material.name
EnableOverride_StoreLiteral(st, mats) ==
    LET material == IF Truthy(st) THEN MaterialsGet(mats, st[1]) ELSE None
    IN  IF material = None
        THEN Outcome(FreshId(mats), <<ClayName>>, create_clay_material(mats),
                     <<"INFO", "INFO">>, 1)
        ELSE Outcome(material, st, mats, <<"INFO">>, 0)

\* version 1.4.0, override unset: look the stored name up, create the clay
\* material when that gives nothing, and enable the override with it
EnableOverride(st, mats) ==
    LET material_name == st
        material == IF Truthy(material_name)
                    THEN MaterialsGet(mats, material_name[1]) ELSE None
    IN  IF material = None
        THEN LET created == create_clay_material(mats)
                 mat == FreshId(mats)
             IN  Outcome(mat, <<created[mat]>>, created, <<"INFO", "INFO">>, 1)
        ELSE Outcome(material, st, mats, <<"INFO">>, 0)

\* src/__init__.py
ExecuteV14(ov, st, mats) ==
    IF ov # None THEN DisableOverride(ov, st, mats) ELSE EnableOverride(st, mats)

\* src/clay_mode_addon/__init__.py
ExecuteV11(ov, st, mats) ==
    IF ov # None THEN DisableOverride(ov, st, mats)
    ELSE EnableStoredOverride(st, mats)

\* the stored name is present, non-empty and names an existing material
Resolves(st, mats) == Truthy(st) /\ MaterialsGet(mats, st[1]) # None

NoCall == [op |-> "none", result |-> "", reports |-> <<>>, ov |-> None,
           st |-> <<>>, mats |-> <<>>, created |-> 0]

NoPrev == [valid |-> FALSE, ov |-> None, mats |-> <<>>]

NoRun == [n |-> 0, enabled0 |-> FALSE, created |-> 0, createdAt |-> 0,
          stuck |-> FALSE]

\* the operator's effect on the host state, with the bookkeeping of the call
Apply(r) ==
    /\ material_override' = r.ov
    /\ stored' = r.st
    /\ materials' = r.mats
    /\ last' = [op |-> "toggle", result |-> r.result, reports |-> r.reports,
                ov |-> material_override, st |-> stored, mats |-> materials,
                created |-> r.created]
    /\ prev' = IF last.op = "toggle"
               THEN [valid |-> TRUE, ov |-> last.ov, mats |-> last.mats]
               ELSE NoPrev
    /\ run' = [n |-> run.n + 1,
               enabled0 |-> IF run.n = 0 THEN material_override # None
                            ELSE run.enabled0,
               created |-> run.created + r.created,
               createdAt |-> IF r.created > 0 THEN run.n + 1 ELSE run.createdAt,
               stuck |-> IF run.n = 0
                         THEN material_override = None /\ ~Resolves(stored, materials)
                         ELSE run.stuck]
    /\ UNCHANGED <<version, groupVars>>

ToggleV14 ==
    /\ version = "1.4.0"
    /\ run.n < MaxToggles
    /\ (material_override = None /\ ~Resolves(stored, materials))
          => Cardinality(DOMAIN materials) < MaxMats
    /\ Apply(ExecuteV14(material_override, stored, materials))

ToggleV11 ==
    /\ version = "1.1"
    /\ run.n < MaxToggles
    /\ Apply(ExecuteV11(material_override, stored, materials))

-----------------------------------------------------------------------------
(* The host: what the user and other scripts do between operator calls *)

Forget ==
    /\ last' = [NoCall EXCEPT !.op = "host"]
    /\ prev' = NoPrev
    /\ run' = NoRun
    /\ UNCHANGED <<version, groupVars>>

\* a material is added under a requested name
NewMaterial ==
    /\ Cardinality(DOMAIN materials) < MaxMats
    /\ \E name \in UserNames : materials' = MaterialsNew(materials, name)
    /\ UNCHANGED <<material_override, stored>>
    /\ Forget

\* bpy.data.materials.remove(m): the view layer's pointer to it is cleared
RemoveMaterial ==
    /\ \E m \in DOMAIN materials :
          /\ materials' = [k \in DOMAIN materials \ {m} |-> materials[k]]
          /\ material_override' =
                IF material_override = m THEN None ELSE material_override
    /\ UNCHANGED stored
    /\ Forget

\* m.name = name
RenameMaterial ==
    /\ \E m \in DOMAIN materials, name \in UserNames :
          /\ materials[m] # name
          /\ materials' = [materials EXCEPT
                ![m] = UniqueName(name, NamesOf(materials) \ {materials[m]})]
    /\ UNCHANGED <<material_override, stored>>
    /\ Forget

\* the override is picked or cleared in the view layer properties
SetOverride ==
    /\ \E m \in DOMAIN materials \cup {None} :
          /\ m # material_override
          /\ material_override' = m
    /\ UNCHANGED <<materials, stored>>
    /\ Forget

\* the custom property is edited or deleted
EditStored ==
    /\ \E v \in {<<>>, <<"">>} \cup {<<n>> : n \in UserNames} :
          /\ v # stored
          /\ stored' = v
    /\ UNCHANGED <<materials, material_override>>
    /\ Forget

-----------------------------------------------------------------------------
(* Host data: objects, vectors and matrices *)

Axes == 1..3

\* Coordinates are fixed-point numbers: Grid stands for 1.0.  Every grouping
\* halves a sum of coordinates once, so with the object coordinates of the
\* scenes below on whole units and at most MaxObjs - NumInit nested empties
\* every halving is exact, as it is in binary floating point.
Grid == 2 ^ (MaxObjs - NumInit)

\* float('inf'): above every coordinate that occurs
Inf == 1000000

Half(x) == x \div 2

ObjIds == 1..MaxObjs

\* Object.bound_box: the 8 corners of the local box, in Blender's order
BoxCorners(lo, hi) ==
    << <<lo[1], lo[2], lo[3]>>, <<lo[1], lo[2], hi[3]>>,
       <<lo[1], hi[2], hi[3]>>, <<lo[1], hi[2], lo[3]>>,
       <<hi[1], lo[2], lo[3]>>, <<hi[1], lo[2], hi[3]>>,
       <<hi[1], hi[2], hi[3]>>, <<hi[1], hi[2], lo[3]>> >>

\* an empty has no geometry: its bound_box is 8 times the origin
ZeroBox == BoxCorners(<<0, 0, 0>>, <<0, 0, 0>>)

IdentityLin == << <<1, 0, 0>>, <<0, 1, 0>>, <<0, 0, 1>> >>

\* matrix_world @ Vector(corner): the linear part applied to the corner plus
\* the translation
Row(m, v, a) ==
    m.lin[a][1] * v[1] + m.lin[a][2] * v[2] + m.lin[a][3] * v[3] + m.loc[a]

MatVec(m, v) == <<Row(m, v, 1), Row(m, v, 2), Row(m, v, 3)>>

\* The world matrices the objects of the initial scenes have: at the origin;
\* turned a quarter about Z and moved; stretched, mirrored and moved.
Poses ==
    << [lin |-> IdentityLin, loc |-> <<0, 0, 0>>],
       [lin |-> << <<0, -1, 0>>, <<1, 0, 0>>, <<0, 0, 1>> >>,
        loc |-> <<2 * Grid, 0, Grid>>],
       [lin |-> << <<2, 0, 0>>, <<0, 1, 0>>, <<0, 0, -1>> >>,
        loc |-> <<-Grid, Grid, 0>>] >>

Suffixed(base, i) == IF i = 1 THEN base ELSE base \o Suffixes[i - 1]

\* object i of an initial scene: a mesh whose box grows with i
InitialObject(i, parent, layout) ==
    LET pose == Poses[((i + layout) % Len(Poses)) + 1]
    IN  [name |-> Suffixed("Cube", i),
         type |-> "MESH",
         parent |-> parent,
         bound_box |-> BoxCorners(<<-Grid, -Grid, 0>>, <<Grid, i * Grid, Grid>>),
         matrix_world |-> pose,
         location |-> pose.loc,
         scale |-> <<Grid, Grid, Grid>>]

ObjNames(objs) == {objs[o].name : o \in DOMAIN objs}

\* obj.children
Children(objs, o) == {c \in DOMAIN objs : objs[c].parent = o}

\* the k-th ancestor of o, None above the root
RECURSIVE AncestorAt(_, _, _)
AncestorAt(objs, o, k) ==
    IF o = None THEN None
    ELSE IF k = 0 THEN o
    ELSE AncestorAt(objs, objs[o].parent, k - 1)

\* no object is its own ancestor
Acyclic(objs) ==
    \A o \in DOMAIN objs :
        \A k \in 1..Cardinality(DOMAIN objs) : AncestorAt(objs, o, k) # o

\* the objects below some object of set
Descendants(objs, set) ==
    {o \in DOMAIN objs :
        \E k \in 1..Cardinality(DOMAIN objs) : AncestorAt(objs, o, k) \in set}

-----------------------------------------------------------------------------
(* CLAY_OT_GroupWithSummary *)

summarize_names_First(names) == CHOOSE n \in names : TRUE

\* the placeholder of the AI summary
summarize_names(names) == "Group"

\* a gather that forgets the recursion: the selected objects alone
gather_all_objects_Shallow(objs, objs_in, fuel) ==
    [all |-> objs_in, done |-> TRUE]

\* The recursion over obj.children.  fuel is the number of nested calls
\* left; a call that would need more than one per object of the scene never
\* returns (done = FALSE).
RECURSIVE gather_all_objects(_, _, _)
gather_all_objects(objs, objs_in, fuel) ==
    IF objs_in = {} THEN [all |-> {}, done |-> TRUE]
    ELSE IF fuel = 0 THEN [all |-> objs_in, done |-> FALSE]
    ELSE LET subs == {gather_all_objects(objs, Children(objs, o), fuel - 1) :
                          o \in objs_in}
         IN  [all |-> objs_in \cup UNION {g.all : g \in subs},
              done |-> \A g \in subs : g.done]

Min(a, b) == IF a <= b THEN a ELSE b

Max(a, b) == IF a >= b THEN a ELSE b

\* the loop over the corners: the running component-wise minimum and maximum
RECURSIVE ReduceCorners(_, _, _)
ReduceCorners(corners, min_corner, max_corner) ==
    IF corners = {} THEN [min |-> min_corner, max |-> max_corner]
    ELSE LET world_corner == CHOOSE c \in corners : TRUE
         IN  ReduceCorners(corners \ {world_corner},
                 <<Min(min_corner[1], world_corner[1]),
                   Min(min_corner[2], world_corner[2]),
                   Min(min_corner[3], world_corner[3])>>,
                 <<Max(max_corner[1], world_corner[1]),
                   Max(max_corner[2], world_corner[2]),
                   Max(max_corner[3], world_corner[3])>>)

WorldCorners(objs, set) ==
    {MatVec(objs[o].matrix_world, objs[o].bound_box[i]) :
        o \in set, i \in 1..8}

NewObjId(objs) == CHOOSE o \in ObjIds : o \notin DOMAIN objs /\
                      \A k \in ObjIds : k \notin DOMAIN objs => o <= k

\* bpy.ops.object.empty_add(type='CUBE', location=center): a new root object
\* "Empty" at center with unit scale
empty_add(objs, center) ==
    LET id == NewObjId(objs)
    IN  [o \in DOMAIN objs \cup {id} |->
            IF o = id
            THEN [name |-> UniqueName("Empty", ObjNames(objs)),
                  type |-> "EMPTY",
                  parent |-> None,
                  bound_box |-> ZeroBox,
                  matrix_world |-> [lin |-> IdentityLin, loc |-> center],
                  location |-> center,
                  scale |-> <<Grid, Grid, Grid>>]
            ELSE objs[o]]

\* obj.name = name: the host keeps object names unique
SetName(objs, o, name) ==
    [objs EXCEPT ![o].name =
        UniqueName(name, ObjNames([k \in DOMAIN objs \ {o} |-> objs[k]]))]

\* a loop that read context.selected_objects again after empty_add, when the
\* new empty is the only selected object
Reparent_SelectionReread(objs, selected_objs, bounding_box) ==
    [objs EXCEPT ![bounding_box].parent = bounding_box]

\* for obj in selected_objs: obj.parent = bounding_box
Reparent(objs, selected_objs, bounding_box) ==
    [o \in DOMAIN objs |->
        IF o \in selected_objs
        THEN [objs[o] EXCEPT !.parent = bounding_box] ELSE objs[o]]

\* execute on the scene objs with selected_objs selected
ExecuteGroup(objs, selected_objs) ==
    IF selected_objs = {}
    THEN [result |-> "CANCELLED", reports |-> <<"WARNING">>, objs |-> objs,
          new |-> None, all |-> {}, done |-> TRUE]
    ELSE LET g == gather_all_objects(objs, selected_objs,
                                     Cardinality(DOMAIN objs))
             box == ReduceCorners(WorldCorners(objs, g.all),
                                  <<Inf, Inf, Inf>>, <<-Inf, -Inf, -Inf>>)
             center == <<Half(box.min[1] + box.max[1]),
                         Half(box.min[2] + box.max[2]),
                         Half(box.min[3] + box.max[3])>>
             size == <<box.max[1] - box.min[1], box.max[2] - box.min[2],
                       box.max[3] - box.min[3]>>
             bounding_box == NewObjId(objs)
             added == empty_add(objs, center)
             named == SetName(added, bounding_box,
                         summarize_names({objs[o].name : o \in selected_objs}))
             scaled == [named EXCEPT
                          ![bounding_box].scale =
                              <<Half(size[1]), Half(size[2]), Half(size[3])>>]
         IN  [result |-> "FINISHED", reports |-> <<"INFO">>,
              objs |-> Reparent(scaled, selected_objs, bounding_box),
              new |-> bounding_box, all |-> g.all, done |-> g.done]

NoGroupCall == [op |-> "none", result |-> "", reports |-> <<>>, sel |-> {},
                objs |-> <<>>, new |-> None, all |-> {}, done |-> TRUE]

\* The user selects sel and runs the operator.  empty_add deselects
\* everything and makes the new empty the selected and active object.
Group ==
    /\ version = "1.4.0"
    /\ \E sel \in SUBSET DOMAIN objects :
          /\ sel # {} => Cardinality(DOMAIN objects) < MaxObjs
          /\ \E r \in {ExecuteGroup(objects, sel)} :
                 /\ objects' = r.objs
                 /\ selected_objects' = IF r.new = None THEN sel ELSE {r.new}
                 /\ active_object' =
                       IF r.new = None THEN active_object ELSE r.new
                 /\ call' = [op |-> "group", result |-> r.result,
                             reports |-> r.reports, sel |-> sel,
                             objs |-> objects, new |-> r.new,
                             all |-> r.all, done |-> r.done]
    /\ UNCHANGED <<version, toggleVars>>

-----------------------------------------------------------------------------

Versions == {"1.4.0", "1.1"}

\* the scene of NumInit meshes with the given parents
InitialObjects(parents, layout) ==
    [i \in 1..NumInit |-> InitialObject(i, parents[i], layout)]

NoParents == [i \in 1..NumInit |-> None]

\* a new file: the default material, no override, no custom property
Init ==
    /\ version \in Versions
    /\ materials = [m \in {1} |-> "Material"]
    /\ material_override = None
    /\ stored = <<>>
    /\ last = NoCall
    /\ prev = NoPrev
    /\ run = NoRun
    /\ objects = InitialObjects(NoParents, 0)
    /\ selected_objects = {}
    /\ active_object = None
    /\ call = NoGroupCall

Next ==
    \/ ToggleV14
    \/ ToggleV11
    \/ NewMaterial
    \/ RemoveMaterial
    \/ RenameMaterial
    \/ SetOverride
    \/ EditStored

Spec == Init /\ [][Next]_vars

\* the grouping operator on its own: 1.4.0 in a scene whose objects form any
\* forest, in either of two layouts (which object has which pose)
InitGroup ==
    /\ version = "1.4.0"
    /\ materials = [m \in {1} |-> "Material"]
    /\ material_override = None
    /\ stored = <<>>
    /\ last = NoCall
    /\ prev = NoPrev
    /\ run = NoRun
    /\ \E parents \in [1..NumInit -> (1..NumInit) \cup {None}],
          layout \in {0, 1} :
          /\ objects = InitialObjects(parents, layout)
          /\ Acyclic(objects)
    /\ selected_objects = {}
    /\ active_object = None
    /\ call = NoGroupCall

NextGroup == Group

SpecGroup == InitGroup /\ [][NextGroup]_vars

-----------------------------------------------------------------------------
(* Properties of the override toggle *)

Toggled == last.op = "toggle"

Odd(n) == n % 2 = 1

\* C1: two toggles in a row from a state whose override is a material M that
\* exists leave the override at that same M and the materials as they were
\* (both versions).
C1_RoundTrip ==
    (Toggled /\ prev.valid /\ prev.ov # None /\ prev.ov \in DOMAIN prev.mats)
        => /\ material_override = prev.ov
           /\ materials = prev.mats

C1_Witness ==
    /\ Toggled /\ prev.valid /\ prev.ov # None
    /\ material_override = prev.ov
    /\ Cardinality(DOMAIN materials) = 2
    /\ run.n >= 3

\* C2: a toggle that finds the override set to M clears it, stores M's name
\* over whatever was stored, leaves the materials alone and returns FINISHED
\* (both versions).
C2_Disable ==
    (Toggled /\ last.ov # None)
        => /\ material_override = None
           /\ stored = <<last.mats[last.ov]>>
           /\ materials = last.mats
           /\ last.result = "FINISHED"

\* the override was picked by the user (first toggle of the run) and an
\* earlier, different name was stored
C2_Witness ==
    /\ Toggled /\ last.ov # None /\ run.n = 1
    /\ Truthy(last.st) /\ last.st # stored
    /\ material_override = None

\* C3: in 1.4.0 every toggle flips the override, so after n toggles in a row
\* the override is set exactly when (set at the start) differs from (n odd).
C3_Flip ==
    (version = "1.4.0" /\ Toggled)
        => /\ (material_override # None) <=> (last.ov = None)
           /\ (material_override # None) <=> (run.enabled0 # Odd(run.n))

C3_Witness ==
    /\ version = "1.4.0" /\ Toggled /\ run.n = 3
    /\ ~run.enabled0 /\ material_override # None
    /\ run.created = 1

\* C4: in 1.4.0 an enabling toggle whose stored name is absent, empty or
\* unresolved creates exactly one material, makes it the override and stores
\* the name that material ended up with; one whose stored name resolves
\* creates nothing and leaves the stored name as it was.
C4_Fallback ==
    (version = "1.4.0" /\ Toggled /\ last.ov = None)
        => IF ~Resolves(last.st, last.mats)
           THEN /\ last.created = 1
                /\ Cardinality(DOMAIN materials) = Cardinality(DOMAIN last.mats) + 1
                /\ \A m \in DOMAIN last.mats :
                      m \in DOMAIN materials /\ materials[m] = last.mats[m]
                /\ material_override \in DOMAIN materials \ DOMAIN last.mats
                /\ stored = <<materials[material_override]>>
           ELSE /\ last.created = 0
                /\ materials = last.mats
                /\ stored = last.st
                /\ material_override = MaterialsGet(last.mats, last.st[1])

\* the new material could not take the requested name
C4_Witness ==
    /\ version = "1.4.0" /\ Toggled /\ last.ov = None
    /\ last.created = 1
    /\ stored # <<ClayName>>
    /\ stored = <<materials[material_override]>>

\* C5: in 1.1 an enabling toggle with no stored name, or one that does not
\* resolve, reports a WARNING, returns FINISHED and changes nothing; a run of
\* toggles that starts there never enables the override.
C5_FailedEnable ==
    /\ (version = "1.1" /\ Toggled /\ last.ov = None
           /\ ~Resolves(last.st, last.mats))
          => /\ last.reports = <<"WARNING">>
             /\ last.result = "FINISHED"
             /\ material_override = None
             /\ stored = last.st
             /\ materials = last.mats
             /\ last.created = 0
    /\ (version = "1.1" /\ run.n >= 1 /\ run.stuck) => material_override = None

C5_Witness ==
    /\ version = "1.1" /\ run.stuck /\ run.n >= 3
    /\ Truthy(stored) /\ material_override = None
    /\ last.reports = <<"WARNING">>

\* C9: in 1.4.0, within a run of toggles that nothing else interrupts,
\* create_clay_material is called at most once, and only by the first
\* enabling toggle; once a toggle has run the stored name always names an
\* existing material.
C9_NoLeak ==
    (version = "1.4.0" /\ run.n >= 1)
        => /\ run.created <= 1
           /\ run.created = 1 => run.createdAt = (IF run.enabled0 THEN 2 ELSE 1)
           /\ Resolves(stored, materials)

C9_Witness ==
    /\ version = "1.4.0" /\ run.n >= 3
    /\ run.created = 1 /\ run.createdAt = 1
    /\ material_override # None
    /\ last.created = 0

-----------------------------------------------------------------------------
(* Properties of the grouping operator *)

Grouped == call.op = "group" /\ call.result = "FINISHED"

\* the selection of the last call with everything below it, read off the
\* parent pointers
Extent == call.sel \cup Descendants(call.objs, call.sel)

Coords(points, a) == {p[a] : p \in points}

Least(S) == CHOOSE m \in S : \A x \in S : m <= x

Greatest(S) == CHOOSE m \in S : \A x \in S : m >= x

\* C6: for a non-empty selection the new empty sits at (min+max)/2 with scale
\* (max-min)/2 per axis, min and max taken over the world-space corners of
\* the selected objects and all their descendants, so every such corner lies
\* within location -/+ scale.
C6_BoundingBox ==
    Grouped =>
        LET points == WorldCorners(call.objs, Extent)
            empty == objects[call.new]
        IN  \A a \in Axes :
               /\ 2 * empty.location[a] =
                     Least(Coords(points, a)) + Greatest(Coords(points, a))
               /\ 2 * empty.scale[a] =
                     Greatest(Coords(points, a)) - Least(Coords(points, a))
               /\ \A p \in points :
                     /\ empty.location[a] - empty.scale[a] <= p[a]
                     /\ p[a] <= empty.location[a] + empty.scale[a]

\* a descendant that is not selected reaches beyond the selected objects,
\* and a group empty of an earlier call is part of the selection
C6_Witness ==
    /\ Grouped
    /\ \E o \in call.sel : call.objs[o].type = "EMPTY"
    /\ \E a \in Axes :
          Greatest(Coords(WorldCorners(call.objs, Extent), a))
              > Greatest(Coords(WorldCorners(call.objs, call.sel), a))

\* C7 as stated: an empty selection is refused with a WARNING and CANCELLED
\* and nothing changes; otherwise exactly one empty is created, it is named
\* 'Group', it becomes the parent of the selected objects and the result is
\* FINISHED.
C7_Original ==
    call.op = "group" =>
        IF call.sel = {}
        THEN /\ call.reports = <<"WARNING">>
             /\ call.result = "CANCELLED"
             /\ objects = call.objs
        ELSE /\ call.result = "FINISHED"
             /\ call.new \notin DOMAIN call.objs
             /\ DOMAIN objects = DOMAIN call.objs \cup {call.new}
             /\ objects[call.new].type = "EMPTY"
             /\ objects[call.new].name = "Group"
             /\ \A o \in call.sel : objects[o].parent = call.new

\* C7: as above, but the empty is named 'Group' only while no other object
\* has that name; otherwise it gets the host's unique variant of it
\* ('Group.001', ...).
C7_Grouping ==
    call.op = "group" =>
        IF call.sel = {}
        THEN /\ call.reports = <<"WARNING">>
             /\ call.result = "CANCELLED"
             /\ objects = call.objs
        ELSE /\ call.result = "FINISHED"
             /\ call.new \notin DOMAIN call.objs
             /\ DOMAIN objects = DOMAIN call.objs \cup {call.new}
             /\ objects[call.new].type = "EMPTY"
             /\ objects[call.new].name = UniqueName("Group", ObjNames(call.objs))
             /\ \A o \in call.sel : objects[o].parent = call.new

C7_Witness ==
    /\ Grouped
    /\ objects[call.new].name = "Group.001"
    /\ Cardinality(call.sel) >= 2

\* an object of the selection with no selected ancestor
TopLevel(o) ==
    \A k \in 1..Cardinality(DOMAIN call.objs) :
        AncestorAt(call.objs, o, k) \notin call.sel

\* C8: only the top-level selected objects get the empty as parent; a
\* selected object with a selected ancestor keeps its parent, and so does
\* every object that is not selected.
C8_OnlyTopLevel ==
    Grouped =>
        \A o \in DOMAIN call.objs :
            objects[o].parent =
                IF o \in call.sel /\ TopLevel(o) THEN call.new
                ELSE call.objs[o].parent

\* C10: the parent relation stays acyclic; each new empty is a root when it
\* is created; the recursion of gather_all_objects returned, with exactly
\* the selected objects and their transitive descendants.
C10_Forest ==
    /\ Acyclic(objects)
    /\ Grouped =>
          /\ objects[call.new].parent = None
          /\ call.done
          /\ call.all = Extent

\* the selection holds an earlier group empty, and an object with its child
C10_Witness ==
    /\ Grouped
    /\ \E o \in call.sel : call.objs[o].type = "EMPTY"
    /\ \E o \in call.sel : call.objs[o].parent \in call.sel
    /\ Extent # call.sel

====
